---- MODULE Spec2Model ----
(***************************************************************************)
(* Model of coin_flip.py: the batch splitter (yield_worker_batch_sizes),   *)
(* the trial runner (perform_trials), the result merger (merge_trials)     *)
(* and the fork/join pipeline of main.                                     *)
(*                                                                         *)
(* Spec      : main, its worker processes, the queue and the output file.  *)
(* SpecMerge : merge_trials called on sequences of histograms returned by  *)
(*             perform_trials, with Python's list objects kept on a heap   *)
(*             so that aliasing between inputs and output is observable.   *)
(***************************************************************************)
EXTENDS Integers, Sequences, FiniteSets, TLC

\* ------------------------------------------------------------------ bounds
MaxTrials == 7
MaxWorkers == 3
MaxFlips == 4
MaxHists == 3

\* ----------------------------------------------------------------- helpers
Max(S) == CHOOSE x \in S : \A y \in S : y <= x

Min(S) == CHOOSE x \in S : \A y \in S : x <= y

RECURSIVE SumSeq(_)
SumSeq(s) == IF s = <<>> THEN 0 ELSE Head(s) + SumSeq(Tail(s))

\* iteration order of a dict: insertion order.  perform_trials inserts key
\* counter only after every smaller key, and merge_trials inserts the keys of
\* such dicts in the order it meets them, so insertion order is ascending.
RECURSIVE KeysAsc(_)
KeysAsc(S) == IF S = {} THEN <<>> ELSE <<Min(S)>> \o KeysAsc(S \ {Min(S)})

\* dict.get(k, [0, 0])
Get(h, k) == IF k \in DOMAIN h THEN h[k] ELSE <<0, 0>>

\* ------------------------------------------------------------- flip_coin
Flips == {"H", "T"}

\* ------------------------------------------------ yield_worker_batch_sizes
\* the i-th value yielded by the generator's loop, i = 0 .. num_workers-1
YieldLate(batch_size, remainder, n_workers, i) ==
    batch_size + (IF i >= n_workers - remainder THEN 1 ELSE 0)

YieldNoRemainder(batch_size, remainder, n_workers, i) == batch_size

Yield(batch_size, remainder, n_workers, i) ==
    batch_size + (IF i < remainder THEN 1 ELSE 0)

yield_worker_batch_sizes(n_trials, n_workers) ==
    LET batch_size == n_trials \div n_workers
        remainder  == n_trials - batch_size * n_workers
    IN  [j \in 1..n_workers |-> Yield(batch_size, remainder, n_workers, j - 1)]

\* ---------------------------------------------------------- perform_trials
\* a running perform_trials call: its argument, the loop index of
\* range(num_trials), counter, head_chains and where it stands
NewCallZero(n) ==
    [num_trials |-> n, i |-> 0, counter |-> 0, head_chains |-> <<>>, at |-> "loop"]

NewCall(n) ==
    [num_trials |-> n, i |-> 0, counter |-> 1, head_chains |-> <<>>, at |-> "loop"]

\* for _ in range(num_trials): is there a next iteration
LoopAtLeastOnce(p) == p.i < p.num_trials \/ p.i = 0

LoopContinues(p) == p.i < p.num_trials

\* one iteration of the loop body with the given flip.  chain is the list
\* object stored at head_chains[counter] (created as [0, 0] when absent), so
\* the increment of chain is an increment of the dict's entry.
FlipStepDropTails(p, flip) ==
    LET c   == p.counter
        hc  == IF c \in DOMAIN p.head_chains THEN p.head_chains
               ELSE p.head_chains @@ (c :> <<0, 0>>)
    IN  IF flip = "H"
        THEN [p EXCEPT !.head_chains = [hc EXCEPT ![c] = <<@[1] + 1, @[2]>>],
                       !.counter = c + 1, !.i = @ + 1]
        ELSE [p EXCEPT !.head_chains = hc, !.counter = 1, !.i = @ + 1]

FlipStepNoReset(p, flip) ==
    LET c   == p.counter
        hc  == IF c \in DOMAIN p.head_chains THEN p.head_chains
               ELSE p.head_chains @@ (c :> <<0, 0>>)
    IN  IF flip = "H"
        THEN [p EXCEPT !.head_chains = [hc EXCEPT ![c] = <<@[1] + 1, @[2]>>],
                       !.counter = c + 1, !.i = @ + 1]
        ELSE [p EXCEPT !.head_chains = [hc EXCEPT ![c] = <<@[1], @[2] + 1>>],
                       !.counter = c + 1, !.i = @ + 1]

FlipStepResetZero(p, flip) ==
    LET c   == p.counter
        hc  == IF c \in DOMAIN p.head_chains THEN p.head_chains
               ELSE p.head_chains @@ (c :> <<0, 0>>)
    IN  IF flip = "H"
        THEN [p EXCEPT !.head_chains = [hc EXCEPT ![c] = <<@[1] + 1, @[2]>>],
                       !.counter = c + 1, !.i = @ + 1]
        ELSE [p EXCEPT !.head_chains = [hc EXCEPT ![c] = <<@[1], @[2] + 1>>],
                       !.counter = 0, !.i = @ + 1]

FlipStepNoExtend(p, flip) ==
    LET c   == p.counter
        hc  == IF c \in DOMAIN p.head_chains THEN p.head_chains
               ELSE p.head_chains @@ (c :> <<0, 0>>)
    IN  IF flip = "H"
        THEN [p EXCEPT !.head_chains = [hc EXCEPT ![c] = <<@[1] + 1, @[2]>>],
                       !.i = @ + 1]
        ELSE [p EXCEPT !.head_chains = [hc EXCEPT ![c] = <<@[1], @[2] + 1>>],
                       !.counter = 1, !.i = @ + 1]

FlipStepSwapped(p, flip) ==
    LET c   == p.counter
        hc  == IF c \in DOMAIN p.head_chains THEN p.head_chains
               ELSE p.head_chains @@ (c :> <<0, 0>>)
    IN  IF flip = "H"
        THEN [p EXCEPT !.head_chains = [hc EXCEPT ![c] = <<@[1], @[2] + 1>>],
                       !.counter = c + 1, !.i = @ + 1]
        ELSE [p EXCEPT !.head_chains = [hc EXCEPT ![c] = <<@[1] + 1, @[2]>>],
                       !.counter = 1, !.i = @ + 1]

FlipStep(p, flip) ==
    LET c   == p.counter
        hc  == IF c \in DOMAIN p.head_chains THEN p.head_chains
               ELSE p.head_chains @@ (c :> <<0, 0>>)
    IN  IF flip = "H"
        THEN [p EXCEPT !.head_chains = [hc EXCEPT ![c] = <<@[1] + 1, @[2]>>],
                       !.counter = c + 1, !.i = @ + 1]
        ELSE [p EXCEPT !.head_chains = [hc EXCEPT ![c] = <<@[1], @[2] + 1>>],
                       !.counter = 1, !.i = @ + 1]

\* perform_trials(Len(flips)) with q = None, the flips being the outcomes of
\* the successive flip_coin() calls
RECURSIVE RunLoop(_, _)
RunLoop(p, flips) ==
    IF LoopContinues(p) /\ flips # <<>>
    THEN RunLoop(FlipStep(p, Head(flips)), Tail(flips))
    ELSE p

perform_trials(flips) == RunLoop(NewCall(Len(flips)), flips).head_chains

\* ------------------------------------------------------------ merge_trials
\* A histogram value is a function key -> <<heads, tails>>.  In Python the
\* pair is a mutable list; heap is the sequence of list objects, an address
\* is an index of heap, and a dict maps keys to addresses.

\* the dict for histogram value h, its lists allocated at the end of heap in
\* the dict's iteration order
RECURSIVE StoreKeys(_, _, _)
StoreKeys(st, h, ks) ==
    IF ks = <<>> THEN st
    ELSE StoreKeys([heap |-> Append(st.heap, h[Head(ks)]),
                    d    |-> st.d @@ (Head(ks) :> Len(st.heap) + 1)],
                   h, Tail(ks))

Store(heap, h) == StoreKeys([heap |-> heap, d |-> <<>>], h, KeysAsc(DOMAIN h))

\* the list of dicts for the histogram values hs
RECURSIVE StoreAll(_, _)
StoreAll(st, hs) ==
    IF hs = <<>> THEN st
    ELSE LET s == Store(st.heap, Head(hs))
         IN  StoreAll([heap |-> s.heap, dicts |-> Append(st.dicts, s.d)], Tail(hs))

\* the histogram value of dict d
Deref(heap, d) == [k \in DOMAIN d |-> heap[d[k]]]

\* body of the inner loop for key k, item = tr[k] living at address a
MergeItemAlias(st, k, a) ==
    IF k \in DOMAIN st.d
    THEN [st EXCEPT !.heap[st.d[k]] =
                        <<@[1] + st.heap[a][1], @[2] + st.heap[a][2]>>]
    ELSE [heap |-> st.heap, d |-> st.d @@ (k :> a)]

MergeItemOverwrite(st, k, a) ==
    [heap |-> Append(st.heap, st.heap[a]),
     d    |-> (k :> Len(st.heap) + 1) @@ st.d]

MergeItemHeadsOnly(st, k, a) ==
    IF k \in DOMAIN st.d
    THEN [st EXCEPT !.heap[st.d[k]] = <<@[1] + st.heap[a][1], @[2]>>]
    ELSE [heap |-> Append(st.heap, st.heap[a]),
          d    |-> st.d @@ (k :> Len(st.heap) + 1)]

MergeItemSwapCopy(st, k, a) ==
    IF k \in DOMAIN st.d
    THEN [st EXCEPT !.heap[st.d[k]] =
                        <<@[1] + st.heap[a][1], @[2] + st.heap[a][2]>>]
    ELSE [heap |-> Append(st.heap, <<st.heap[a][2], st.heap[a][1]>>),
          d    |-> st.d @@ (k :> Len(st.heap) + 1)]

MergeItem(st, k, a) ==
    IF k \in DOMAIN st.d
    THEN [st EXCEPT !.heap[st.d[k]] =
                        <<@[1] + st.heap[a][1], @[2] + st.heap[a][2]>>]
    ELSE [heap |-> Append(st.heap, st.heap[a]),
          d    |-> st.d @@ (k :> Len(st.heap) + 1)]

\* for k in tr
RECURSIVE MergeKeys(_, _, _)
MergeKeys(st, tr, ks) ==
    IF ks = <<>> THEN st
    ELSE MergeKeys(MergeItem(st, Head(ks), tr[Head(ks)]), tr, Tail(ks))

\* for tr in trial_results
RECURSIVE MergeLoop(_, _)
MergeLoop(st, trs) ==
    IF trs = <<>> THEN st
    ELSE MergeLoop(MergeKeys(st, Head(trs), KeysAsc(DOMAIN Head(trs))), Tail(trs))

\* merge_trials(trs) run on heap: the heap afterwards and the returned dict
merge_trials(heap, trs) == MergeLoop([heap |-> heap, d |-> <<>>], trs)

\* a merge_trials call on dicts living on heap: what went in and what came out
CallRecord(heap, dicts, r) ==
    [made |-> TRUE, ins |-> dicts, before |-> heap, after |-> r.heap, out |-> r.d]

RunMerge(heap, dicts) == CallRecord(heap, dicts, merge_trials(heap, dicts))

RunMergeOn(ld) == RunMerge(ld.heap, ld.dicts)

\* the inner call of a nested merge, then the outer one on its result
RunLeft(ld, r1) == RunMerge(r1.heap, <<r1.d, ld.dicts[3]>>)

RunRight(ld, r1) == RunMerge(r1.heap, <<ld.dicts[1], r1.d>>)

Loaded(hs) == StoreAll([heap |-> <<>>, dicts |-> <<>>], hs)

\* the histogram value a call returned
Returned(c) == Deref(c.after, c.out)

\* merge_trials on histogram values, as main calls it on the unpickled results
MergeValues(hs) == Returned(RunMergeOn(Loaded(hs)))

\* ------------------------------------------------------------------- state
VARIABLES
    pc,              \* where main stands
    num_trials,      \* main's num_trials
    num_workers,     \* main's num_workers
    out_file,        \* the file at path out_file
    procs,           \* the spawned processes' perform_trials calls, in spawn order
    q,               \* the multiprocessing queue
    results,         \* main's results list
    joined,          \* how many of procs main has joined
    merged_results,  \* main's merged_results
    flipped,         \* history: the outcomes of flip_coin() in each process, in order
    hists,           \* SpecMerge: the histograms handed to merge_trials
    flat,            \* SpecMerge: merge_trials of hists in some order
    leftAssoc,       \* SpecMerge: merge([merge([H1, H2]), H3])
    rightAssoc,      \* SpecMerge: merge([H1, merge([H2, H3])])
    call             \* SpecMerge: heap and dicts of the latest merge_trials call

mainVars == <<pc, num_trials, num_workers, out_file, procs, q, results, joined,
              merged_results, flipped>>

mergeVars == <<hists, flat, leftAssoc, rightAssoc, call>>

vars == <<pc, num_trials, num_workers, out_file, procs, q, results, joined,
          merged_results, flipped, hists, flat, leftAssoc, rightAssoc, call>>

NoFile == [exists |-> FALSE, header |-> <<>>, rows |-> <<>>]

OldFile == [exists |-> TRUE, header |-> <<"old">>, rows |-> <<>>]

NoCall == [made |-> FALSE, ins |-> <<>>, before |-> <<>>, after |-> <<>>, out |-> <<>>]

NoResult == [done |-> FALSE, perm |-> <<>>, res |-> <<>>]

MergeIdle ==
    /\ hists = <<>>
    /\ flat = NoResult
    /\ leftAssoc = NoResult
    /\ rightAssoc = NoResult
    /\ call = NoCall

MainIdle ==
    /\ pc = "idle"
    /\ num_trials = 0
    /\ num_workers = 1
    /\ out_file = NoFile
    /\ procs = <<>>
    /\ q = <<>>
    /\ results = <<>>
    /\ joined = 0
    /\ merged_results = <<>>
    /\ flipped = <<>>

\* -------------------------------------------------------------------- main
Init ==
    /\ pc = "start"
    /\ num_trials \in 0..MaxTrials
    /\ num_workers \in 1..MaxWorkers
    /\ out_file \in {NoFile, OldFile}
    /\ procs = <<>>
    /\ q = <<>>
    /\ results = <<>>
    /\ joined = 0
    /\ merged_results = <<>>
    /\ flipped = <<>>
    /\ MergeIdle

\* while len(results) < num_workers
CollectShort(res, n) == Len(res) < n - 1

CollectOneMore(res, n) == Len(res) <= n

CollectMore(res, n) == Len(res) < n

\* os.path.isfile(out_file)
isfileNever(f) == FALSE

isfile(f) == f.exists

\* if os.path.isfile(out_file): raise
CheckFile ==
    /\ pc = "start"
    /\ pc' = IF isfile(out_file) THEN "raised_exists" ELSE "spawn"
    /\ UNCHANGED <<num_trials, num_workers, out_file, procs, q, results, joined,
                   merged_results>>
    /\ UNCHANGED <<flipped, mergeVars>>

\* one iteration of: for batch_size in yield_worker_batch_sizes(...): start p
Spawn ==
    /\ pc = "spawn"
    /\ Len(procs) < num_workers
    /\ procs' = Append(procs,
           NewCall(yield_worker_batch_sizes(num_trials, num_workers)[Len(procs) + 1]))
    /\ pc' = IF Len(procs') < num_workers THEN "spawn"
             ELSE IF CollectMore(results, num_workers) THEN "collect" ELSE "join"
    /\ flipped' = Append(flipped, <<>>)
    /\ UNCHANGED <<num_trials, num_workers, out_file, q, results, joined,
                   merged_results>>
    /\ UNCHANGED mergeVars

FlipShared(w, flip) ==
    /\ w \in 1..Len(procs)
    /\ procs[w].at = "loop"
    /\ LoopContinues(procs[w])
    /\ procs' = [v \in 1..Len(procs) |->
                   IF v = w THEN FlipStep(procs[w], flip)
                   ELSE [procs[v] EXCEPT !.counter = FlipStep(procs[w], flip).counter]]
    /\ flipped' = [flipped EXCEPT ![w] = Append(@, flip)]
    /\ UNCHANGED <<pc, num_trials, num_workers, out_file, q, results, joined,
                   merged_results>>
    /\ UNCHANGED mergeVars

\* one loop iteration of perform_trials in process w
Flip(w, flip) ==
    /\ w \in 1..Len(procs)
    /\ procs[w].at = "loop"
    /\ LoopContinues(procs[w])
    /\ procs' = [procs EXCEPT ![w] = FlipStep(@, flip)]
    /\ flipped' = [flipped EXCEPT ![w] = Append(@, flip)]
    /\ UNCHANGED <<pc, num_trials, num_workers, out_file, q, results, joined,
                   merged_results>>
    /\ UNCHANGED mergeVars

\* q.put(head_chains); return head_chains
Put(w) ==
    /\ w \in 1..Len(procs)
    /\ procs[w].at = "loop"
    /\ ~LoopContinues(procs[w])
    /\ q' = Append(q, procs[w].head_chains)
    /\ procs' = [procs EXCEPT ![w].at = "exited"]
    /\ UNCHANGED <<pc, num_trials, num_workers, out_file, results, joined,
                   merged_results>>
    /\ UNCHANGED <<flipped, mergeVars>>

CollectDup ==
    /\ pc = "collect"
    /\ q # <<>>
    /\ results' = Append(results, Head(q))
    /\ q' = q
    /\ pc' = IF CollectMore(results', num_workers) THEN "collect" ELSE "join"
    /\ UNCHANGED <<num_trials, num_workers, out_file, procs, joined, merged_results>>
    /\ UNCHANGED <<flipped, mergeVars>>

\* results.append(q.get())
Collect ==
    /\ pc = "collect"
    /\ q # <<>>
    /\ results' = Append(results, Head(q))
    /\ q' = Tail(q)
    /\ pc' = IF CollectMore(results', num_workers) THEN "collect" ELSE "join"
    /\ UNCHANGED <<num_trials, num_workers, out_file, procs, joined, merged_results>>
    /\ UNCHANGED <<flipped, mergeVars>>

\* for p in procs: p.join()
Join ==
    /\ pc = "join"
    /\ joined < Len(procs)
    /\ procs[joined + 1].at = "exited"
    /\ joined' = joined + 1
    /\ pc' = IF joined' < Len(procs) THEN "join" ELSE "merge"
    /\ UNCHANGED <<num_trials, num_workers, out_file, procs, q, results,
                   merged_results>>
    /\ UNCHANGED <<flipped, mergeVars>>

\* merged_results = merge_trials(results)
Merge ==
    /\ pc = "merge"
    /\ merged_results' = MergeValues(results)
    /\ pc' = "write"
    /\ UNCHANGED <<num_trials, num_workers, out_file, procs, q, results, joined>>
    /\ UNCHANGED <<flipped, mergeVars>>

RowsShort(merged) ==
    [r \in 1..(Max(DOMAIN merged) - 1) |-> <<r, Get(merged, r)[1], Get(merged, r)[2]>>]

\* the rows written after the header
Rows(merged) ==
    [r \in 1..Max(DOMAIN merged) |-> <<r, Get(merged, r)[1], Get(merged, r)[2]>>]

WriteDefault ==
    /\ pc = "write"
    /\ out_file' = [exists |-> TRUE,
                    header |-> <<"chain_length", "heads", "tails">>,
                    rows   |-> IF DOMAIN merged_results = {} THEN <<>>
                               ELSE Rows(merged_results)]
    /\ pc' = "done"
    /\ UNCHANGED <<num_trials, num_workers, procs, q, results, joined, merged_results>>
    /\ UNCHANGED <<flipped, mergeVars>>

\* m = max(merged_results.keys()), then the csv is written
Write ==
    /\ pc = "write"
    /\ IF DOMAIN merged_results = {}
       THEN /\ pc' = "raised_max"
            /\ UNCHANGED out_file
       ELSE /\ out_file' = [exists |-> TRUE,
                            header |-> <<"chain_length", "heads", "tails">>,
                            rows   |-> Rows(merged_results)]
            /\ pc' = "done"
    /\ UNCHANGED <<num_trials, num_workers, procs, q, results, joined, merged_results>>
    /\ UNCHANGED <<flipped, mergeVars>>

Next ==
    \/ CheckFile
    \/ Spawn
    \/ \E w \in 1..MaxWorkers, flip \in Flips : Flip(w, flip)
    \/ \E w \in 1..MaxWorkers : Put(w)
    \/ Collect
    \/ Join
    \/ Merge
    \/ Write

Spec == Init /\ [][Next]_vars

\* the steps of the main process other than the merge
MainStep == CheckFile \/ Spawn \/ Collect \/ Join \/ Write

\* main is a running process: a step of main that stays possible is taken.
\* Merge is possible exactly when pc = "merge" and leaves that position, so
\* weak fairness of Merge is []<>(pc # "merge").  Nothing is assumed of the
\* worker processes, which may stall for good.
SpecFair ==
    /\ Init
    /\ [][Next]_vars
    /\ WF_vars(MainStep)
    /\ []<>(pc # "merge")

\* ------------------------------------------------- merge_trials on its own
RECURSIVE FlipSeqs(_)
FlipSeqs(n) ==
    IF n = 0 THEN {<<>>}
    ELSE FlipSeqs(n - 1) \cup {Append(s, f) : s \in FlipSeqs(n - 1), f \in Flips}

\* the sequences of at most n histograms returned by perform_trials calls
\* that made at most budget flips in all
RECURSIVE HistSeqs(_, _)
HistSeqs(n, budget) ==
    IF n = 0 THEN {<<>>}
    ELSE HistSeqs(n - 1, budget) \cup
         UNION {{<<perform_trials(f)>> \o s : s \in HistSeqs(n - 1, budget - Len(f))} :
                f \in FlipSeqs(budget)}

\* the orders in which n histograms can be handed over
RECURSIVE PermSeqs(_)
PermSeqs(S) ==
    IF S = {} THEN {<<>>}
    ELSE UNION {{<<x>> \o t : t \in PermSeqs(S \ {x})} : x \in S}

Perms(n) == PermSeqs(1..n)

RECURSIVE Pick(_, _)
Pick(hs, p) == IF p = <<>> THEN <<>> ELSE <<hs[Head(p)]>> \o Pick(hs, Tail(p))

InitMerge ==
    /\ MainIdle
    /\ hists \in HistSeqs(MaxHists, MaxFlips)
    /\ flat = NoResult
    /\ leftAssoc = NoResult
    /\ rightAssoc = NoResult
    /\ call = NoCall

\* merge_trials([hists[p[1]], ..., hists[p[n]]])
MergeFlat(p) ==
    /\ ~flat.done
    /\ call' = RunMergeOn(Loaded(Pick(hists, p)))
    /\ flat' = [done |-> TRUE, perm |-> p, res |-> Returned(call')]
    /\ UNCHANGED <<hists, leftAssoc, rightAssoc>>
    /\ UNCHANGED mainVars

\* merge_trials([merge_trials([H1, H2]), H3])
LeftCall(ld) == RunLeft(ld, merge_trials(ld.heap, <<ld.dicts[1], ld.dicts[2]>>))

MergeLeftAssoc ==
    /\ Len(hists) = 3
    /\ ~leftAssoc.done
    /\ call' = LeftCall(Loaded(hists))
    /\ leftAssoc' = [done |-> TRUE, perm |-> <<>>, res |-> Returned(call')]
    /\ UNCHANGED <<hists, flat, rightAssoc>>
    /\ UNCHANGED mainVars

\* merge_trials([H1, merge_trials([H2, H3])])
RightCall(ld) == RunRight(ld, merge_trials(ld.heap, <<ld.dicts[2], ld.dicts[3]>>))

MergeRightAssoc ==
    /\ Len(hists) = 3
    /\ ~rightAssoc.done
    /\ call' = RightCall(Loaded(hists))
    /\ rightAssoc' = [done |-> TRUE, perm |-> <<>>, res |-> Returned(call')]
    /\ UNCHANGED <<hists, flat, leftAssoc>>
    /\ UNCHANGED mainVars

NextMerge ==
    \/ (~flat.done /\ \E p \in Perms(Len(hists)) : MergeFlat(p))
    \/ MergeLeftAssoc
    \/ MergeRightAssoc

SpecMerge == InitMerge /\ [][NextMerge]_vars

\* ----------------------------------------------------------------- claims
\* the batch sizes handed to the processes spawned so far
Batches == [j \in 1..Len(procs) |-> procs[j].num_trials]

\* main has left the spawn loop
Spawned == pc \in {"collect", "join", "merge", "write", "done", "raised_max"}

\* heads + tails over all keys of histogram h
RECURSIVE TotalOver(_, _)
TotalOver(h, S) ==
    IF S = {} THEN 0
    ELSE h[Min(S)][1] + h[Min(S)][2] + TotalOver(h, S \ {Min(S)})

Total(h) == TotalOver(h, DOMAIN h)

\* component c (1 heads, 2 tails) at key k summed over the histograms hs,
\* a histogram without k counting 0
RECURSIVE SumAt(_, _, _)
SumAt(hs, k, c) ==
    IF hs = <<>> THEN 0 ELSE Get(Head(hs), k)[c] + SumAt(Tail(hs), k, c)

\* the addresses a dict refers to
Addrs(d) == {d[k] : k \in DOMAIN d}

\* C1: once the spawn loop is over, yield_worker_batch_sizes has yielded
\* exactly num_workers batch sizes, each a non-negative integer, and they
\* sum to num_trials.
C1_BatchCountAndSum ==
    /\ Len(procs) <= num_workers
    /\ \A j \in 1..Len(procs) : Batches[j] \in Nat
    /\ Spawned => /\ Len(procs) = num_workers
                  /\ SumSeq(Batches) = num_trials

C1_Witness ==
    /\ Spawned
    /\ num_trials = 7
    /\ num_workers = 3
    /\ Len(procs) = 3

\* C2: the yielded batch sizes are non-increasing, any two differ by at most
\* 1, the first (num_trials mod num_workers) of them are base + 1 and the
\* others base, where base = num_trials div num_workers; when num_trials <
\* num_workers, num_trials workers get 1 and the others 0.
C2_BatchShape ==
    LET base      == num_trials \div num_workers
        remainder == num_trials % num_workers
    IN  /\ \A j \in 1..Len(procs) :
              Batches[j] = IF j <= remainder THEN base + 1 ELSE base
        /\ \A i, j \in 1..Len(procs) :
              i < j => Batches[i] >= Batches[j] /\ Batches[i] - Batches[j] <= 1
        /\ Spawned /\ num_trials < num_workers =>
              /\ Cardinality({j \in 1..Len(procs) : Batches[j] = 1}) = num_trials
              /\ \A j \in 1..Len(procs) : Batches[j] \in {0, 1}

C2_Witness ==
    /\ Spawned
    /\ Batches = <<3, 2, 2>>

\* C3: merge_trials returns a histogram whose keys are the union of the
\* inputs' keys and whose value at key k is (sum of heads, sum of tails) over
\* the inputs, an input without k counting (0, 0).
C3_MergeIsElementwiseSum ==
    flat.done =>
        /\ DOMAIN flat.res = UNION {DOMAIN hists[j] : j \in 1..Len(hists)}
        /\ \A k \in DOMAIN flat.res :
              flat.res[k] = <<SumAt(hists, k, 1), SumAt(hists, k, 2)>>

C3_Witness ==
    /\ flat.done
    /\ Len(hists) = 3
    /\ flat.perm = <<2, 3, 1>>
    /\ \A j \in 1..3 : hists[j] # <<>>
    /\ \E k \in DOMAIN hists[1] : k \notin DOMAIN hists[2] /\ k \notin DOMAIN hists[3]
    /\ flat.res[1][1] > 0 /\ flat.res[1][2] >= 2

\* C4: merge_trials is associative and commutative: merging H1, H2, H3 in
\* any order, merging merge([H1, H2]) with H3 and merging H1 with
\* merge([H2, H3]) give equal histograms; merging any inputs in a permuted
\* order gives the histogram of merging them in the given order.
C4_MergeAssocComm ==
    /\ flat.done => flat.res = MergeValues(hists)
    /\ flat.done /\ leftAssoc.done => flat.res = leftAssoc.res
    /\ flat.done /\ rightAssoc.done => flat.res = rightAssoc.res
    /\ leftAssoc.done /\ rightAssoc.done => leftAssoc.res = rightAssoc.res

C4_Witness ==
    /\ flat.done /\ leftAssoc.done /\ rightAssoc.done
    /\ flat.perm = <<3, 1, 2>>
    /\ hists[1] # hists[2] /\ hists[2] # hists[3] /\ hists[1] # hists[3]
    /\ \E k \in DOMAIN hists[1] : k \in DOMAIN hists[2] /\ k \in DOMAIN hists[3]

\* C5: a merge_trials call leaves every list of every input histogram as it
\* was, and the returned histogram holds no list that an input holds.
C5_MergeKeepsInputs ==
    call.made =>
        /\ \A j \in 1..Len(call.ins) :
              Deref(call.after, call.ins[j]) = Deref(call.before, call.ins[j])
        /\ \A j \in 1..Len(call.ins) : Addrs(call.out) \cap Addrs(call.ins[j]) = {}

C5_Witness ==
    /\ call.made
    /\ Len(call.ins) >= 2
    /\ \E k \in DOMAIN call.ins[1] :
          /\ k \in DOMAIN call.ins[2]
          /\ call.after[call.out[k]] # call.before[call.ins[1][k]]

\* C6: merging a histogram H with an empty histogram, in either order,
\* returns a histogram equal to H and leaves H as it was.
C6_MergeIdentity ==
    flat.done /\ Len(hists) = 2 =>
        /\ hists[2] = <<>> => flat.res = hists[1]
        /\ hists[1] = <<>> => flat.res = hists[2]
        /\ hists[1] = <<>> \/ hists[2] = <<>> =>
              \A j \in 1..2 : Deref(call.after, call.ins[j]) = hists[flat.perm[j]]

C6_Witness ==
    /\ flat.done
    /\ Len(hists) = 2
    /\ hists[2] = <<>>
    /\ Cardinality(DOMAIN hists[1]) >= 2
    /\ flat.perm = <<2, 1>>

\* C7: the histogram of a perform_trials call counts every flip made so far
\* exactly once, so the returned histogram's heads + tails over all keys is
\* num_trials.
C7_TotalIsNumTrials ==
    \A w \in 1..Len(procs) :
        /\ Total(procs[w].head_chains) = procs[w].i
        /\ procs[w].at = "exited" => Total(procs[w].head_chains) = procs[w].num_trials

C7_Witness ==
    \E w \in 1..Len(procs) :
        /\ procs[w].at = "exited"
        /\ procs[w].num_trials = 5
        /\ Cardinality(DOMAIN procs[w].head_chains) >= 2
        /\ \E k \in DOMAIN procs[w].head_chains : procs[w].head_chains[k][2] > 0

\* C8: perform_trials(0) makes no flip and returns (and puts on the queue) an
\* empty histogram.
C8_ZeroTrialsEmpty ==
    \A w \in 1..Len(procs) :
        procs[w].num_trials = 0 =>
            /\ procs[w].i = 0
            /\ procs[w].head_chains = <<>>

C8_Witness ==
    \E w \in 1..Len(procs) :
        /\ procs[w].num_trials = 0
        /\ procs[w].at = "exited"
        /\ <<>> \in {results[j] : j \in 1..Len(results)}

\* C9: for num_trials >= 1, the histogram main merges from the workers'
\* histograms has heads + tails over all keys equal to num_trials.
C9_MergedTotal ==
    pc \in {"write", "done", "raised_max"} /\ num_trials >= 1 =>
        Total(merged_results) = num_trials

C9_Witness ==
    /\ pc = "done"
    /\ num_trials = 6
    /\ num_workers = 2
    /\ Batches = <<3, 3>>
    /\ \A j \in 1..2 : Total(results[j]) = 3
    /\ Total(merged_results) = 6

\* the tails column of the written file summed over all rows
TailsColumn == SumSeq([r \in 1..Len(out_file.rows) |-> out_file.rows[r][3]])

\* C10 as stated: in the written file, heads of the row for chain length 1
\* equals the sum of the tails column.
C10_Row1HeadsIsTotalTails ==
    pc = "done" => out_file.rows[1][2] = TailsColumn

\* C10 amended: in the written file, heads + tails of the row for chain
\* length 1 is at least the sum of the tails column and at most that sum plus
\* num_workers.
C10_Row1FlipsBoundTails ==
    pc = "done" =>
        /\ out_file.rows[1][1] = 1
        /\ TailsColumn <= out_file.rows[1][2] + out_file.rows[1][3]
        /\ out_file.rows[1][2] + out_file.rows[1][3] <= TailsColumn + num_workers

C10_Witness ==
    /\ pc = "done"
    /\ num_workers = 2
    /\ Len(out_file.rows) >= 2
    /\ TailsColumn >= 2
    /\ out_file.rows[1][2] # TailsColumn

\* the histograms of the spawned processes, in spawn order
WorkerHists == [w \in 1..Len(procs) |-> procs[w].head_chains]

\* main is past the join loop
Merging == pc \in {"merge", "write", "done", "raised_max"}

\* main has merged
Merged == pc \in {"write", "done", "raised_max"}

\* how often h occurs in seq
Count(seq, h) == Cardinality({j \in 1..Len(seq) : seq[j] = h})

\* C11: when the output path names an existing file, main raises before any
\* work: no process is spawned, no flip made, nothing queued, collected or
\* merged, and the existing file stays as it was.
C11_ExistingFileFailsFast ==
    /\ out_file = OldFile =>
          /\ pc \in {"start", "raised_exists"}
          /\ procs = <<>> /\ flipped = <<>>
          /\ q = <<>> /\ results = <<>>
          /\ joined = 0 /\ merged_results = <<>>
    /\ pc = "raised_exists" => out_file = OldFile
    /\ out_file.exists /\ out_file # OldFile => pc = "done"

C11_Witness ==
    /\ pc = "raised_exists"
    /\ out_file = OldFile
    /\ num_trials >= 1

\* C12: every worker (also one with batch size 0) puts its histogram on the
\* queue exactly once, the collector takes exactly num_workers results, none
\* lost and none twice; main joins, merges and writes only after it has all
\* num_workers results, and the merged histogram is the per-key sum of all
\* workers' histograms.
C12_ExactlyOnceDelivery ==
    /\ Len(results) + Len(q) =
          Cardinality({w \in 1..Len(procs) : procs[w].at = "exited"})
    /\ \A w \in 1..Len(procs) :
          procs[w].at = "exited" =>
              Count(results \o q, procs[w].head_chains) =
                  Cardinality({v \in 1..Len(procs) :
                                  /\ procs[v].at = "exited"
                                  /\ procs[v].head_chains = procs[w].head_chains})
    /\ Len(results) <= num_workers
    /\ pc \in {"join", "merge", "write", "done", "raised_max"} =>
          /\ Len(results) = num_workers
          /\ q = <<>>
          /\ \A w \in 1..Len(procs) : procs[w].at = "exited"
    /\ Merging => joined = num_workers
    /\ ~Merging => merged_results = <<>> /\ out_file \in {NoFile, OldFile}
    /\ Merged =>
          /\ DOMAIN merged_results = UNION {DOMAIN WorkerHists[w] : w \in 1..Len(procs)}
          /\ \A k \in DOMAIN merged_results :
                merged_results[k] = <<SumAt(WorkerHists, k, 1), SumAt(WorkerHists, k, 2)>>

C12_Witness ==
    /\ pc = "done"
    /\ num_workers = 3
    /\ num_trials = 2
    /\ results[1] = <<>>
    /\ results[2] = results[3]

\* C13: the written table has the header chain_length,heads,tails and then
\* exactly one row for each chain length 1..max key of the merged histogram,
\* in ascending order, each with the merged (heads, tails) of that key, a
\* length missing from the merged histogram being reported as 0,0.
C13_OutputTable ==
    pc = "done" =>
        /\ out_file.exists
        /\ out_file.header = <<"chain_length", "heads", "tails">>
        /\ Len(out_file.rows) = Max(DOMAIN merged_results)
        /\ \A r \in 1..Len(out_file.rows) : out_file.rows[r][1] = r
        /\ \A k \in DOMAIN merged_results :
              out_file.rows[k] = <<k, merged_results[k][1], merged_results[k][2]>>
        /\ \A r \in 1..Len(out_file.rows) :
              r \notin DOMAIN merged_results => out_file.rows[r] = <<r, 0, 0>>

C13_Witness ==
    /\ pc = "done"
    /\ Len(out_file.rows) >= 3
    /\ num_workers = 2
    /\ out_file.rows[1][2] >= 2 /\ out_file.rows[1][3] >= 1

\* the keys of h are 1..n for some n
Contiguous(h) == DOMAIN h = 1..Cardinality(DOMAIN h)

\* C14: after every flip, in every queued and collected histogram and in the
\* merged histogram the keys are contiguous from 1 to the maximum key, so
\* the written table has no zero-filled row for a missing length.
C14_KeysContiguous ==
    /\ \A w \in 1..Len(procs) : Contiguous(procs[w].head_chains)
    /\ \A j \in 1..Len(q) : Contiguous(q[j])
    /\ \A j \in 1..Len(results) : Contiguous(results[j])
    /\ Contiguous(merged_results)
    /\ pc = "done" => DOMAIN merged_results = 1..Len(out_file.rows)

C14_Witness ==
    /\ pc = "done"
    /\ \E w \in 1..Len(procs) : Cardinality(DOMAIN procs[w].head_chains) >= 3
    /\ \E w \in 1..Len(procs) : Cardinality(DOMAIN procs[w].head_chains) = 1
    /\ Len(out_file.rows) >= 3

\* the number of consecutive heads immediately before flip n of f, since the
\* last tails or the start
RunBefore(f, n) ==
    LET tailsAt == {m \in 1..(n - 1) : f[m] = "T"}
    IN  (n - 1) - (IF tailsAt = {} THEN 0 ELSE Max(tailsAt))

\* the flips of f that came up side after exactly k - 1 consecutive heads
FlipsAt(f, k, side) == {n \in 1..Len(f) : f[n] = side /\ RunBefore(f, n) = k - 1}

\* C15: the histogram of a perform_trials call is the reference count of its
\* flips: heads[k] (tails[k]) is the number of heads (tails) flips preceded
\* by exactly k - 1 consecutive heads, key k is present exactly when some
\* flip was made with counter = k, and counter is 1 plus the number of heads
\* since the last tails.
C15_HistogramIsReferenceCount ==
    /\ Len(flipped) = Len(procs)
    /\ \A w \in 1..Len(procs) :
          LET f == flipped[w]
              h == procs[w].head_chains
          IN  /\ Len(f) = procs[w].i
              /\ procs[w].counter = RunBefore(f, Len(f) + 1) + 1
              /\ DOMAIN h = {RunBefore(f, n) + 1 : n \in 1..Len(f)}
              /\ \A k \in DOMAIN h :
                    h[k] = <<Cardinality(FlipsAt(f, k, "H")),
                             Cardinality(FlipsAt(f, k, "T"))>>

C15_Witness ==
    \E w \in 1..Len(procs) :
        /\ procs[w].at = "exited"
        /\ flipped[w] = <<"H", "H", "T", "H", "T", "T">>
        /\ procs[w].head_chains = <<(<<2, 1>>), (<<1, 1>>), (<<0, 1>>)>>

\* heads at key k that no flip at key k + 1 follows
Unfollowed(h, k) == Get(h, k)[1] - (Get(h, k + 1)[1] + Get(h, k + 1)[2])

\* C16: in every histogram of perform_trials each head at key k is followed
\* by a flip at key k + 1 except a final head: heads[k] - (heads[k+1] +
\* tails[k+1]) is 0 or 1, is 1 for at most one k, and is 1 for some k exactly
\* when the last flip was heads (then k = counter - 1).
C16_UnterminatedStreak ==
    \A w \in 1..Len(procs) :
        LET f    == flipped[w]
            h    == procs[w].head_chains
            open == {k \in DOMAIN h : Unfollowed(h, k) = 1}
        IN  /\ \A k \in DOMAIN h : Unfollowed(h, k) \in {0, 1}
            /\ Cardinality(open) <= 1
            /\ Cardinality(open) = 1 <=> (f # <<>> /\ f[Len(f)] = "H")
            /\ open # {} => open = {procs[w].counter - 1}

C16_Witness ==
    \E w \in 1..Len(procs) :
        /\ procs[w].at = "exited"
        /\ flipped[w] = <<"H", "T", "H", "H">>
        /\ Unfollowed(procs[w].head_chains, 2) = 1
        /\ Unfollowed(procs[w].head_chains, 1) = 0

\* the merged histogram as a function of the flip outcomes alone, workers
\* taken in spawn order
MergedOfFlips == MergeValues([w \in 1..Len(flipped) |-> perform_trials(flipped[w])])

C17_Determined == Merged => merged_results = MergedOfFlips

C17_Isolated ==
    /\ Len(procs') >= Len(procs)
    /\ \A w, v \in 1..Len(procs) :
          w # v => procs'[w] = procs[w] \/ procs'[v] = procs[v]
    /\ \A w \in 1..Len(procs) :
          flipped'[w] # flipped[w] =>
              \A v \in 1..Len(procs) :
                  v # w => procs'[v] = procs[v] /\ flipped'[v] = flipped[v]

\* C17: with each worker's flip outcomes fixed, the merged histogram is the
\* same whatever the interleaving of worker steps and the order of arrival
\* on the queue; and a step of one worker changes no other worker's counter
\* or histogram.
C17_OrderIndependent == []C17_Determined /\ [][C17_Isolated]_vars

C17_Witness ==
    /\ pc = "done"
    /\ num_workers = 3
    /\ results[1] = procs[3].head_chains
    /\ results[3] = procs[1].head_chains
    /\ results[1] # results[3]
    /\ results[2] # results[3]

\* C19: with num_trials = 0 every worker gets batch size 0 and delivers an
\* empty histogram, the merged histogram is empty, and main raises at
\* max(merged_results.keys()) after collecting and joining every worker and
\* before opening the output file: no output file is ever created.
C19_ZeroTrialsRaises ==
    num_trials = 0 =>
        /\ \A w \in 1..Len(procs) :
              procs[w].num_trials = 0 /\ procs[w].head_chains = <<>>
        /\ \A j \in 1..Len(results) : results[j] = <<>>
        /\ merged_results = <<>>
        /\ pc # "done"
        /\ out_file \in {NoFile, OldFile}
        /\ pc = "raised_max" =>
              /\ Len(results) = num_workers
              /\ joined = num_workers
              /\ \A w \in 1..Len(procs) : procs[w].at = "exited"
              /\ out_file = NoFile

C19_Witness ==
    /\ pc = "raised_max"
    /\ num_trials = 0
    /\ num_workers = 3
    /\ out_file = NoFile

\* the tails of histogram h over all keys
RECURSIVE TailsOver(_, _)
TailsOver(h, S) ==
    IF S = {} THEN 0 ELSE h[Min(S)][2] + TailsOver(h, S \ {Min(S)})

Tails(h) == TailsOver(h, DOMAIN h)

\* the flips recorded at key 1
AtOne(h) == Get(h, 1)[1] + Get(h, 1)[2]

\* C20: for a perform_trials run that has made at least one flip, the flips
\* recorded at key 1 number 1 + (tails over all keys) - (1 if the last flip
\* is tails, else 0); so when every batch is non-empty the merged histogram
\* has between (total tails) and (total tails + num_workers) flips at key 1.
C20_StreakStarts ==
    /\ \A w \in 1..Len(procs) :
          procs[w].i >= 1 =>
              AtOne(procs[w].head_chains) =
                  1 + Tails(procs[w].head_chains)
                    - (IF flipped[w][Len(flipped[w])] = "T" THEN 1 ELSE 0)
    /\ Merged /\ num_trials >= num_workers =>
          /\ \A w \in 1..Len(procs) : procs[w].num_trials >= 1
          /\ Tails(merged_results) <= AtOne(merged_results)
          /\ AtOne(merged_results) <= Tails(merged_results) + num_workers

C20_Witness ==
    /\ pc = "done"
    /\ num_workers = 2
    /\ Len(flipped) = 2
    /\ Len(flipped[1]) >= 1 /\ Len(flipped[2]) >= 1
    /\ flipped[1][Len(flipped[1])] = "T"
    /\ flipped[2][Len(flipped[2])] = "H"
    /\ Tails(merged_results) >= 3
    /\ AtOne(merged_results) = Tails(merged_results) + 1

\* worker w has put its histogram on the queue and returned
Delivered(w) == w <= Len(procs) /\ procs[w].at = "exited"

\* every worker has delivered
AllDelivered == Len(procs) = num_workers /\ \A w \in 1..Len(procs) : Delivered(w)

\* main has not got past the collect loop: nothing merged, no file created
Blocked ==
    /\ pc \in {"start", "raised_exists", "spawn", "collect"}
    /\ merged_results = <<>>
    /\ out_file \in {NoFile, OldFile}

\* C18: when main is scheduled fairly, once every worker has completed and
\* delivered, main eventually has num_workers results, merges and writes the
\* file (num_trials >= 1); and as long as some worker has not delivered, main
\* is not past the collect loop, has merged nothing and has created no file,
\* so with a worker that never delivers main stays blocked for good.
C18_CompletesOrBlocks ==
    /\ [](~AllDelivered => Blocked)
    /\ (AllDelivered /\ num_trials >= 1)
          ~> (pc = "done" /\ Len(results) = num_workers /\ out_file.exists)

C18_Witness ==
    /\ pc = "done"
    /\ num_workers = 3
    /\ out_file.exists
    /\ \A w \in 1..3 : Delivered(w) /\ procs[w].num_trials >= 2

====
